---- MODULE Spec2Model ----
(***************************************************************************)
(* Model of scripts/download-epss-scores.py: a mirror of the daily EPSS    *)
(* score snapshots.  One calendar date is one remote table; a sync fans    *)
(* out one download_scores_by_date task per date over a thread pool.       *)
(*                                                                         *)
(* Calendar dates are day numbers (0..MaxDay); the ISO text of a date is   *)
(* the day number it encodes.  A local path is the record                  *)
(* [dir, iso, ext] of the f-string '{output_dir}/{iso}.{output_format}'.   *)
(*                                                                         *)
(* Spec is one call (the click command, download_scores_over_time or       *)
(* download_scores_by_date) with any options; SpecRerun is a sequence of   *)
(* calls on one mirror.                                                    *)
(***************************************************************************)
EXTENDS Integers, Sequences, FiniteSets, TLC

\* ---------------------------------------------------------------- bounds
MaxDay == 2
MaxCalls == 2
MaxWorkers == 2

Days == 0..MaxDay

\* ------------------------------------------------------ module constants
\* MIN_DATE = "2022-07-15", as the day number its text encodes
MIN_DATE == 1

CWD == "/cwd"

CSV == "csv"
CSV_GZ == "csv.gz"
JSON == "json"
JSONL == "jsonl"
JSON_GZ == "json.gz"
JSONL_GZ == "jsonl.gz"
PARQUET == "parquet"
PARQUET_GZ == "parquet.gz"

OUTPUT_FORMATS == <<CSV, CSV_GZ, JSON, JSONL, JSON_GZ, JSONL_GZ, PARQUET, PARQUET_GZ>>

DEFAULT_OUTPUT_FORMAT == CSV_GZ

OVERWRITE == FALSE

Range(s) == {s[i] : i \in DOMAIN s}

\* ------------------------------------------------------- argument values
\* A date-like object is a number: day d is the datetime.date of that day,
\* and Span * (1 + t) + d is the datetime.datetime at time of day t of day d
\* (t = 0 is midnight); the ISO text of an object is the number of the
\* object, so the text of a datetime is the text of no date.
Span == MaxDay + 1
TimesOfDay == {0, 1}
datetime(d, t) == Span * (1 + t) + d
\* datetime.date() of a datetime
date_of(x) == x % Span
\* the object is a datetime.date and no datetime.datetime
IsPureDate(x) == x \in Days

\* One day of timestamps.
SecondsPerDay == 2

\* A TIME argument: None, a datetime.date, a datetime.datetime, a str ("" is
\* day -1, a str that is no %Y-%m-%d date is day -2) or an int timestamp.
NoneV == [kind |-> "none", day |-> 0]
DateV(d) == [kind |-> "date", day |-> d]
DatetimeV(d, t) == [kind |-> "datetime", day |-> datetime(d, t)]
StrV(d) == [kind |-> "str", day |-> d]
IntV(n) == [kind |-> "int", day |-> n]
EmptyStr == StrV(-1)
BadStr == StrV(-2)

\* Python truthiness of a TIME argument (None, "" and 0 are false, every
\* datetime.date is true).
Truthy(v) == ~(v.kind = "none" \/ v = EmptyStr \/ v = IntV(0))

\* `a or b`
Or(a, b) == IF Truthy(a) THEN a ELSE b

\* An output_format argument: a str, None, or the list OUTPUT_FORMATS
\* (the default of the three library functions).
NoneFormat == "<None>"
ListFormat == "<OUTPUT_FORMATS>"
\* a str that names no supported format
XML == "xml"

\* str() of an output_format inside an f-string
FormatText(f) == IF f = ListFormat THEN "['csv', 'csv.gz', ..., 'parquet.gz']" ELSE f

\* A cve_ids argument: None/() or a collection of identifiers.
NoIds == {}

\* ---------------------------------------------------------- parse_date
ParseError == -99

\* The isinstance chain: a datetime.datetime is a datetime.date, so the
\* first branch returns it as it is and the second is never taken.
parse_date(date) ==
    CASE date.kind \in {"date", "datetime"} -> date.day
      [] date.kind = "str" /\ date.day >= 0 -> date.day
      [] date.kind = "int" -> date.day \div SecondsPerDay
      [] OTHER -> ParseError

\* ------------------------------------------------- get_output_path_by_date
abspath(output_dir) == IF output_dir = "" THEN CWD ELSE output_dir

NoPath == [dir |-> "", iso |-> ParseError, ext |-> ""]

\* the date left out of the file name
mut_path_drops_date(date, output_dir, output_format) ==
    IF parse_date(date) = ParseError THEN NoPath
    ELSE [dir |-> abspath(output_dir),
          iso |-> 0,
          ext |-> FormatText(IF output_format # NoneFormat THEN output_format
                             ELSE DEFAULT_OUTPUT_FORMAT)]

\* f'{output_dir}/{date.isoformat()}.{output_format}', after
\* output_format = output_format or DEFAULT_OUTPUT_FORMAT
get_output_path_by_date(date, output_dir, output_format) ==
    IF parse_date(date) = ParseError THEN NoPath
    ELSE [dir |-> abspath(output_dir),
          iso |-> parse_date(date),
          ext |-> FormatText(IF output_format # NoneFormat THEN output_format
                             ELSE DEFAULT_OUTPUT_FORMAT)]

\* -------------------------------------------- get_output_format_from_path
\* The pieces of a str between its "."s.
Dotted(s) ==
    CASE s = CSV -> <<"csv">>
      [] s = CSV_GZ -> <<"csv", "gz">>
      [] s = JSON -> <<"json">>
      [] s = JSONL -> <<"jsonl">>
      [] s = JSON_GZ -> <<"json", "gz">>
      [] s = JSONL_GZ -> <<"jsonl", "gz">>
      [] s = PARQUET -> <<"parquet">>
      [] s = PARQUET_GZ -> <<"parquet", "gz">>
      [] s = XML -> <<"xml">>
      [] s = FormatText(ListFormat) -> <<"['csv', 'csv", "gz', ..., 'parquet", "gz']">>
      [] OTHER -> <<s>>

\* len() of a format name
len(s) ==
    CASE s = CSV -> 3
      [] s = JSON -> 4
      [] s = JSONL -> 5
      [] s = CSV_GZ -> 6
      [] s \in {JSON_GZ, PARQUET} -> 7
      [] s = JSONL_GZ -> 8
      [] s = PARQUET_GZ -> 10

\* The text of a path, cut at its "."s: '{output_dir}/{iso}' (no "." in
\* the directories and dates of the model), then the pieces of the extension.
PathPieces(path) == <<"stem">> \o Dotted(path.ext)

\* only the last extension of the path is compared
mut_endswith_last_ext(pieces, output_format) ==
    pieces[Len(pieces)] = Dotted(output_format)[Len(Dotted(output_format))]

\* path.endswith(f'.{output_format}')
endswith(pieces, output_format) ==
    LET ext == Dotted(output_format)
    IN  /\ Len(pieces) > Len(ext)
        /\ SubSeq(pieces, Len(pieces) - Len(ext) + 1, Len(pieces)) = ext

\* sorted(seq, key=len, reverse=True): longest first, equal lengths in the
\* order of seq (the sort is stable).
sorted_by_len(seq) ==
    LET before(i) == Cardinality({j \in DOMAIN seq :
                        len(seq[j]) > len(seq[i]) \/ (len(seq[j]) = len(seq[i]) /\ j < i)})
    IN  [k \in DOMAIN seq |-> seq[CHOOSE i \in DOMAIN seq : before(i) = k - 1]]

\* raise ValueError("Could not determine output format from path: ...")
FormatError == "<ValueError>"

\* The first format of the sorted list whose extension ends the path.
get_output_format_from_path(path) ==
    LET formats == sorted_by_len(OUTPUT_FORMATS)
        hits == {k \in DOMAIN formats : endswith(PathPieces(path), formats[k])}
    IN  IF hits = {} THEN FormatError
        ELSE formats[CHOOSE k \in hits : \A h \in hits : k <= h]

\* ------------------------------------------------------ get_output_format
\* compression = 'gzip' for the .gz formats, None otherwise
compression(output_format) ==
    output_format \in {CSV_GZ, JSON_GZ, JSONL_GZ, PARQUET_GZ}

\* the chain ends in a writer instead of the raise
mut_writer_no_else(output_format) ==
    CASE output_format \in {JSON, JSON_GZ} -> "to_json"
      [] output_format \in {JSONL, JSONL_GZ} -> "to_json_lines"
      [] output_format \in {PARQUET, PARQUET_GZ} -> "to_parquet"
      [] OTHER -> "to_csv"

\* the if/elif chain that picks the DataFrame writer; "" is the else branch
writer(output_format) ==
    CASE output_format \in {CSV, CSV_GZ} -> "to_csv"
      [] output_format \in {JSON, JSON_GZ} -> "to_json"
      [] output_format \in {JSONL, JSONL_GZ} -> "to_json_lines"
      [] output_format \in {PARQUET, PARQUET_GZ} -> "to_parquet"
      [] OTHER -> ""

\* ------------------------------------------------------------ the remote
\* The table published for a day: rows (cve_id, day), after the metadata
\* line is skipped.
Snapshot(d) ==
    << [cve_id |-> "CVE-1", day |-> d], [cve_id |-> "CVE-2", day |-> d],
       [cve_id |-> "CVE-3", day |-> d] >>

\* isin is applied whether cve_ids is empty or not
mut_filter_always(df, cve_ids) == SelectSeq(df, LAMBDA r : r.cve_id \in cve_ids)

\* df[df["cve_id"].isin(cve_ids)] when cve_ids is non-empty
filter_rows(df, cve_ids) ==
    IF cve_ids # NoIds THEN SelectSeq(df, LAMBDA r : r.cve_id \in cve_ids) ELSE df

\* ------------------------------------------------------------- the disk
Absent == [writer |-> "", gzip |-> FALSE, rows |-> << >>, whole |-> FALSE]
\* a file this program did not write
Foreign == [writer |-> "?", gzip |-> FALSE, rows |-> << >>, whole |-> TRUE]

DirArgs == {"", "/data"}
FormatArgs == Range(OUTPUT_FORMATS) \cup {NoneFormat, ListFormat, XML}
IdArgs == {NoIds, {"CVE-3", "CVE-1", "CVE-9"}}

\* The formats a call can pass down when the caller names output_format f:
\* an omitted --output-format is DEFAULT_OUTPUT_FORMAT for the command and
\* the list OUTPUT_FORMATS for the library functions.
Omitted == "<omitted>"
PassedFormats(f) == IF f = Omitted THEN {DEFAULT_OUTPUT_FORMAT, ListFormat} ELSE {f}

\* The options of a session: any format, in the working directory and
\* unfiltered or in a named directory and filtered.
OptionArgs ==
    {o \in [output_dir : DirArgs, output_format : FormatArgs \cup {Omitted}, cve_ids : IdArgs] :
        (o.output_dir = "") <=> (o.cve_ids = NoIds)}

\* The paths the calls of a session can name.
Paths(o) == {get_output_path_by_date(DateV(d), o.output_dir, f) :
                d \in Days, f \in PassedFormats(o.output_format)}

VARIABLES
    opts,       \* output_dir, output_format and cve_ids every call is given
    files,      \* the disk: path -> content
    pc,         \* where the caller's thread is
    call,       \* the arguments of the call in progress
    range,      \* iter_dates_in_range: <<min_date, max_date>> once started
    futures,    \* the futures list: one record per submitted task
    examined,   \* futures whose result() has been taken
    error,      \* the error raised to the caller ("" for none)
    left,       \* calls the caller has yet to make
    probes,     \* get_max_date requests of this call
    gets,       \* requests.get per day, this call
    writes,     \* times each path was opened for writing, all calls
    files0,     \* the disk when this call began
    plain,      \* no call so far asked for overwrite
    dirs,       \* the directories on the disk
    failed0,    \* days whose latest request, in an earlier call, failed
    fn          \* the helper function last called on its own, and its result

vars == <<opts, files, pc, call, range, futures, examined, error, left, probes,
          gets, writes, files0, plain, dirs, failed0, fn>>

\* os.path.dirname(path)
dirname(path) == path.dir

\* No helper function has been called on its own.
NoFn == [op |-> "", date |-> NoneV, output_dir |-> "", output_format |-> NoneFormat,
         day |-> ParseError, path |-> NoPath, format |-> ""]

\* a file left incomplete does not count as being there
mut_exists_only_whole(path) == files[path] # Absent /\ files[path].whole

os_path_exists(path) == files[path] # Absent

NoCall == [entry |-> "", argv |-> << >>,
           date |-> NoneV, min_date |-> NoneV, max_date |-> NoneV,
           cve_ids |-> NoIds, output_dir |-> "", output_format |-> NoneFormat,
           given |-> FALSE, overwrite |-> OVERWRITE]

\* One call, with any of the options, on a disk that holds at most one file (one
\* the program did not write).
Init ==
    /\ opts \in OptionArgs
    /\ \E S \in {{}} \cup {{p} : p \in Paths(opts)} :
          files = [p \in Paths(opts) |-> IF p \in S THEN Foreign ELSE Absent]
    /\ pc = "idle"
    /\ call = NoCall
    /\ range = << >>
    /\ futures = << >>
    /\ examined = {}
    /\ error = ""
    /\ left = 1
    /\ probes = 0
    /\ gets = [d \in Days |-> 0]
    /\ writes = [p \in DOMAIN files |-> 0]
    /\ files0 = files
    /\ plain = TRUE
    /\ dirs = {dirname(p) : p \in {q \in DOMAIN files : files[q] # Absent}}
    /\ failed0 = {}
    /\ fn = NoFn

\* A mirror kept in the working directory as csv.gz, unfiltered: up to
\* MaxCalls calls, one after the other, on a disk that starts empty.
InitRerun ==
    /\ opts = [output_dir |-> "", output_format |-> CSV_GZ, cve_ids |-> NoIds]
    /\ files = [p \in Paths(opts) |-> Absent]
    /\ pc = "idle"
    /\ call = NoCall
    /\ range = << >>
    /\ futures = << >>
    /\ examined = {}
    /\ error = ""
    /\ left = MaxCalls
    /\ probes = 0
    /\ gets = [d \in Days |-> 0]
    /\ writes = [p \in DOMAIN files |-> 0]
    /\ files0 = files
    /\ plain = TRUE
    /\ dirs = {dirname(p) : p \in {q \in DOMAIN files : files[q] # Absent}}
    /\ failed0 = {}
    /\ fn = NoFn

\* The same mirror on a disk that may hold one file already: up to MaxCalls
\* calls, one after the other.
InitRetry ==
    /\ opts = [output_dir |-> "", output_format |-> CSV_GZ, cve_ids |-> NoIds]
    /\ \E S \in {{}} \cup {{p} : p \in Paths(opts)} :
          files = [p \in Paths(opts) |-> IF p \in S THEN Foreign ELSE Absent]
    /\ pc = "idle"
    /\ call = NoCall
    /\ range = << >>
    /\ futures = << >>
    /\ examined = {}
    /\ error = ""
    /\ left = MaxCalls
    /\ probes = 0
    /\ gets = [d \in Days |-> 0]
    /\ writes = [p \in DOMAIN files |-> 0]
    /\ files0 = files
    /\ plain = TRUE
    /\ dirs = {dirname(p) : p \in {q \in DOMAIN files : files[q] # Absent}}
    /\ failed0 = {}
    /\ fn = NoFn

\* ------------------------------------------------------------- the calls
\* what the command is given as date, min-date or max-date
StrArgs == {EmptyStr, BadStr, StrV(MIN_DATE), StrV(MaxDay)}
TimeArgs == {NoneV} \cup {DateV(d) : d \in Days}

Terminal == {"skipped", "done", "failed"}

Future(date) == [date |-> date, state |-> "pending", url |-> ParseError,
                 path |-> NoPath, err |-> ""]

\* The task got its table: it went on to the writers.
Fetched(i) == futures[i].state = "done" \/ futures[i].err \in {"format", "partial"}

\* A caller enters one of the three entry points; the per-call counters
\* start again.
Enter(c, where, fs) ==
    /\ left' = left - 1
    /\ call' = c
    /\ pc' = where
    /\ futures' = fs
    /\ range' = << >>
    /\ examined' = {}
    /\ probes' = 0
    /\ gets' = [d \in Days |-> 0]
    /\ files0' = files
    /\ plain' = (plain /\ ~c.overwrite)
    /\ failed0' = (failed0 \ {futures[i].url : i \in {j \in DOMAIN futures : Fetched(j)}})
                      \cup {futures[i].url : i \in {j \in DOMAIN futures : futures[j].err = "http"}}
    /\ UNCHANGED <<fn, dirs, opts, files, writes>>

\* The caller is between calls and may make another.
CanCall == pc \in {"idle", "returned", "raised"} /\ left > 0

\* the command without its first test: a date overrides the range
mut_command_unchecked(date, min_date, max_date, cve_ids, output_dir, output_format, overwrite) ==
    /\ Enter([entry |-> "command", argv |-> <<date, min_date, max_date>>, date |-> date,
              min_date |-> IF Truthy(date) THEN date ELSE min_date,
              max_date |-> IF Truthy(date) THEN date ELSE max_date,
              cve_ids |-> cve_ids, output_dir |-> output_dir,
              output_format |-> IF output_format = Omitted THEN DEFAULT_OUTPUT_FORMAT
                                ELSE output_format,
              given |-> output_format # Omitted, overwrite |-> overwrite],
             "iter", << >>)
    /\ error' = ""

\* download_scores_command: the click command.  Arguments arrive as str;
\* --output-format is a click.Choice(OUTPUT_FORMATS) defaulting to
\* DEFAULT_OUTPUT_FORMAT.
download_scores_command(date, min_date, max_date, cve_ids, output_dir, output_format, overwrite) ==
    LET fmt == IF output_format = Omitted THEN DEFAULT_OUTPUT_FORMAT ELSE output_format
        c == [entry |-> "command", argv |-> <<date, min_date, max_date>>, date |-> date,
              min_date |-> IF Truthy(date) THEN date ELSE min_date,
              max_date |-> IF Truthy(date) THEN date ELSE max_date,
              cve_ids |-> cve_ids, output_dir |-> output_dir,
              output_format |-> fmt, given |-> output_format # Omitted,
              overwrite |-> overwrite]
    IN  IF Truthy(date) /\ (Truthy(min_date) \/ Truthy(max_date))
        THEN /\ Enter([c EXCEPT !.min_date = min_date, !.max_date = max_date], "raised", << >>)
             /\ error' = "usage"
        ELSE /\ Enter(c, "iter", << >>)
             /\ error' = ""

\* download_scores_over_time called as a library function.
download_scores_over_time(cve_ids, min_date, max_date, output_dir, output_format, overwrite) ==
    /\ Enter([entry |-> "over_time", argv |-> << >>, date |-> NoneV, min_date |-> min_date,
              max_date |-> max_date, cve_ids |-> cve_ids, output_dir |-> output_dir,
              output_format |-> IF output_format = Omitted THEN ListFormat ELSE output_format,
              given |-> output_format # Omitted, overwrite |-> overwrite],
             "iter", << >>)
    /\ error' = ""

\* download_scores_by_date called as a library function: the one task runs
\* on the caller's thread.
download_scores_by_date(date, cve_ids, output_dir, output_format, overwrite) ==
    /\ Enter([entry |-> "by_date", argv |-> << >>, date |-> date, min_date |-> NoneV,
              max_date |-> NoneV, cve_ids |-> cve_ids, output_dir |-> output_dir,
              output_format |-> IF output_format = Omitted THEN ListFormat ELSE output_format,
              given |-> output_format # Omitted, overwrite |-> overwrite],
             "direct", << Future(date) >>)
    /\ error' = ""

\* --------------------------------------------------- iter_dates_in_range
\* get_max_date: what the HEAD probe of the "current" alias can answer, a
\* day or a failure (no Location header, no date in it).
ProbeError == -98
ProbeAnswers == Days \cup {ProbeError}

\* `max_date or get_max_date()`: the probe is made when max_date is false
max_probes(max_date) == ~Truthy(max_date)

\* the supplied min_date raised to MIN_DATE
mut_range_min_clamped(min_date) ==
    IF parse_date(Or(min_date, StrV(MIN_DATE))) = ParseError THEN ParseError
    ELSE IF parse_date(Or(min_date, StrV(MIN_DATE))) < MIN_DATE THEN MIN_DATE
    ELSE parse_date(Or(min_date, StrV(MIN_DATE)))

\* min_date = parse_date(min_date or MIN_DATE)
range_min(min_date) == parse_date(Or(min_date, StrV(MIN_DATE)))

\* max_date = parse_date(max_date or get_max_date())
range_max(max_date, latest) ==
    IF max_probes(max_date) THEN latest ELSE parse_date(max_date)

\* abs(delta.days) + 1: a reversed range is walked all the same
mut_ndays_abs(lo, hi) == IF hi < lo THEN (lo - hi) + 1 ELSE (hi - lo) + 1

\* range(delta.days): the last day is lost
mut_ndays_short(lo, hi) == hi - lo

\* delta.days + 1, the argument of range()
ndays(lo, hi) == (hi - lo) + 1

\* The first next() of the generator: both bounds are resolved, the probe
\* is made when max_date is false.  An exception leaves the with block.
IterStart ==
    /\ pc = "iter"
    /\ LET lo == range_min(call.min_date)
       IN  IF lo = ParseError
           THEN /\ error' = "date"
                /\ pc' = "shutdown"
                /\ UNCHANGED <<range, probes>>
           ELSE \E latest \in (IF max_probes(call.max_date) THEN ProbeAnswers ELSE {ProbeError}) :
                  LET hi == range_max(call.max_date, latest)
                  IN  /\ probes' = IF max_probes(call.max_date) THEN probes + 1 ELSE probes
                      /\ IF hi \in {ParseError, ProbeError}
                         THEN /\ error' = IF hi = ParseError THEN "date" ELSE "probe"
                              /\ pc' = "shutdown"
                              /\ range' = range
                         ELSE /\ range' = <<lo, hi>>
                              \* range(n) is empty when n <= 0
                              /\ pc' = IF ndays(lo, hi) > 0 THEN "submit" ELSE "collect"
                              /\ error' = error
    /\ UNCHANGED <<fn, failed0, dirs, opts, files, call, futures, examined, left, gets, writes, files0, plain>>

\* the days are taken back from max_date
mut_day_at_descending(min_date, max_date, i) == max_date - i

\* day = min_date + datetime.timedelta(days=i)
day_at(min_date, max_date, i) == min_date + i

\* One turn of the for loop: the next day is yielded and submitted.
Submit ==
    /\ pc = "submit"
    /\ LET i == Len(futures)
       IN  /\ futures' = Append(futures, Future(DateV(day_at(range[1], range[2], i))))
           /\ pc' = IF i + 1 < ndays(range[1], range[2]) THEN "submit" ELSE "collect"
    /\ UNCHANGED <<fn, failed0, dirs, opts, files, call, range, examined, error, left, probes, gets, writes,
                   files0, plain>>

\* for future in as_completed(futures): future.result()
Collect ==
    /\ pc = "collect"
    /\ \/ /\ examined = DOMAIN futures
          /\ pc' = "shutdown"
          /\ UNCHANGED <<examined, error>>
       \/ \E i \in DOMAIN futures \ examined :
            /\ futures[i].state \in Terminal
            /\ IF futures[i].state = "failed"
               THEN /\ error' = futures[i].err
                    /\ pc' = "shutdown"
                    /\ UNCHANGED examined
               ELSE /\ examined' = examined \cup {i}
                    /\ UNCHANGED <<pc, error>>
    /\ UNCHANGED <<fn, failed0, dirs, opts, files, call, range, futures, left, probes, gets, writes, files0, plain>>

\* shutdown(wait=False): the caller does not wait for the tasks
mut_Shutdown_nowait ==
    /\ pc = "shutdown"
    /\ pc' = IF error = "" THEN "returned" ELSE "raised"
    /\ UNCHANGED <<fn, failed0, dirs, opts, files, call, range, futures, examined, error, left, probes, gets,
                   writes, files0, plain>>

\* an error leaving the with block takes the files of the call with it
mut_Shutdown_rollback ==
    /\ pc = "shutdown"
    /\ \A i \in DOMAIN futures : futures[i].state \in Terminal
    /\ pc' = IF error = "" THEN "returned" ELSE "raised"
    /\ files' = IF error = "" THEN files ELSE files0
    /\ UNCHANGED <<fn, failed0, dirs, opts, call, range, futures, examined, error, left, probes,
                   gets, writes, files0, plain>>

\* shutdown(wait=True, cancel_futures=True): the tasks no thread has taken
\* are cancelled when an error leaves the with block
mut_Shutdown_cancels ==
    /\ pc = "shutdown"
    /\ \A i \in DOMAIN futures : futures[i].state # "running"
    /\ error = "" => \A i \in DOMAIN futures : futures[i].state \in Terminal
    /\ pc' = IF error = "" THEN "returned" ELSE "raised"
    /\ futures' = [i \in DOMAIN futures |->
                      IF futures[i].state = "pending"
                      THEN [futures[i] EXCEPT !.state = "failed", !.err = "cancelled"]
                      ELSE futures[i]]
    /\ UNCHANGED <<fn, failed0, dirs, opts, files, call, range, examined, error, left, probes,
                   gets, writes, files0, plain>>

\* Leaving the with block: executor.shutdown(wait=True), then the return
\* or the pending exception.
Shutdown ==
    /\ pc = "shutdown"
    /\ \A i \in DOMAIN futures : futures[i].state \in Terminal
    /\ pc' = IF error = "" THEN "returned" ELSE "raised"
    /\ UNCHANGED <<fn, failed0, dirs, opts, files, call, range, futures, examined, error, left, probes, gets,
                   writes, files0, plain>>

\* The direct call returns or raises when its one task ends.
DirectReturn ==
    /\ pc = "direct"
    /\ futures[1].state \in Terminal
    /\ error' = futures[1].err
    /\ pc' = IF futures[1].state = "failed" THEN "raised" ELSE "returned"
    /\ UNCHANGED <<fn, failed0, dirs, opts, files, call, range, futures, examined, left, probes, gets, writes,
                   files0, plain>>

\* ------------------------------------------------ download_scores_by_date
\* get_download_url: the day whose snapshot the URL names.
\*   date = parse_date(date) if date else get_max_date()
\* the url is always that of the latest snapshot
mut_url_probes_always(date) == TRUE

\* `parse_date(date) if date else get_max_date()`
url_probes(date) == ~Truthy(date)

get_download_url(date, latest) ==
    IF url_probes(date) THEN latest ELSE parse_date(date)

\* the flag is not looked at: a file at the path always ends the task
mut_skips_any_file(overwrite, path) == os_path_exists(path)

\* the flag read the wrong way round
mut_skips_inverted(overwrite, path) == overwrite /\ os_path_exists(path)

\* `if not overwrite and os.path.exists(path): return`
skips(overwrite, path) == ~overwrite /\ os_path_exists(path)

\* Futures of the pool that a worker thread is running.
busy == Cardinality({i \in DOMAIN futures : futures[i].state = "running"})

\* The url, the path, the existence check and makedirs.  A pool worker
\* takes the oldest queued task when a thread is free.
Start(i) ==
    /\ pc \in {"submit", "collect", "shutdown", "direct"}
    /\ futures[i].state = "pending"
    /\ \A j \in 1..(i - 1) : futures[j].state # "pending"
    /\ busy < MaxWorkers
    /\ LET date == futures[i].date
       IN  \E latest \in (IF url_probes(date) THEN ProbeAnswers ELSE {ProbeError}) :
             LET url == get_download_url(date, latest)
                 path == get_output_path_by_date(date, call.output_dir, call.output_format)
             IN  /\ probes' = IF url_probes(date) THEN probes + 1 ELSE probes
                 /\ futures' = [futures EXCEPT ![i] =
                       IF url = ProbeError THEN [@ EXCEPT !.state = "failed", !.err = "probe"]
                       ELSE IF url = ParseError \/ path = NoPath
                       THEN [@ EXCEPT !.state = "failed", !.err = "date"]
                       ELSE IF skips(call.overwrite, path)
                       THEN [@ EXCEPT !.state = "skipped", !.url = url, !.path = path]
                       ELSE [@ EXCEPT !.state = "running", !.url = url, !.path = path]]
                 \* os.makedirs(os.path.dirname(path), exist_ok=True)
                 /\ dirs' = IF url \in {ProbeError, ParseError} \/ path = NoPath
                                \/ skips(call.overwrite, path)
                             THEN dirs ELSE dirs \cup {dirname(path)}
    /\ UNCHANGED <<fn, failed0, opts, files, pc, call, range, examined, error, left, gets, writes,
                   files0, plain>>

\* What df.to_<writer>(path, compression=...) leaves at path.
written(output_format, url, cve_ids, whole) ==
    [writer |-> writer(output_format), gzip |-> compression(output_format),
     rows |-> IF whole THEN filter_rows(Snapshot(url), cve_ids) ELSE << >>,
     whole |-> whole]

\* How the rest of the task can go: the request fails ("http": no
\* connection, a failure status, an unreadable body); or the table is read
\* and then the else branch raises ValueError ("format"), or the writer
\* fails with its file open ("partial": the file is left incomplete), or
\* it finishes ("ok").  A writer that fails before it creates its file
\* leaves the disk as a failed request does.
Outcomes(output_format) ==
    {"http"} \cup (IF writer(output_format) = "" THEN {"format"}
                   ELSE {"ok", "partial"})

\* the file is opened for writing before the request is made
mut_Finish_opens_first(i) ==
    /\ futures[i].state = "running"
    /\ gets' = [gets EXCEPT ![futures[i].url] = @ + 1]
    /\ \E outcome \in Outcomes(call.output_format) :
         /\ futures' = [futures EXCEPT ![i] =
               IF outcome = "ok" THEN [@ EXCEPT !.state = "done"]
               ELSE [@ EXCEPT !.state = "failed", !.err = outcome]]
         /\ files' = [files EXCEPT ![futures[i].path] =
               written(call.output_format, futures[i].url, call.cve_ids, outcome = "ok")]
         /\ writes' = [writes EXCEPT ![futures[i].path] = @ + 1]
    /\ UNCHANGED <<fn, failed0, dirs, opts, pc, call, range, examined, error, left, probes, files0, plain>>

\* requests.get, raise_for_status and pd.read_csv, then the filter and the
\* if/elif chain of writers.
Finish(i) ==
    /\ futures[i].state = "running"
    /\ gets' = [gets EXCEPT ![futures[i].url] = @ + 1]
    /\ \E outcome \in Outcomes(call.output_format) :
         /\ futures' = [futures EXCEPT ![i] =
               IF outcome = "ok" THEN [@ EXCEPT !.state = "done"]
               ELSE [@ EXCEPT !.state = "failed", !.err = outcome]]
         /\ IF outcome \in {"ok", "partial"}
            THEN /\ files' = [files EXCEPT ![futures[i].path] =
                       written(call.output_format, futures[i].url, call.cve_ids, outcome = "ok")]
                 /\ writes' = [writes EXCEPT ![futures[i].path] = @ + 1]
            ELSE UNCHANGED <<files, writes>>
    /\ UNCHANGED <<fn, failed0, dirs, opts, pc, call, range, examined, error, left, probes, files0, plain>>

\* ------------------------------------------------------------------ Next
Next ==
    \/ /\ CanCall
       /\ opts.output_format \in Range(OUTPUT_FORMATS) \cup {Omitted}
       /\ \E date \in StrArgs, min_date \in StrArgs, max_date \in StrArgs, overwrite \in BOOLEAN :
            download_scores_command(date, min_date, max_date, opts.cve_ids,
                                    opts.output_dir, opts.output_format, overwrite)
    \/ /\ CanCall
       /\ \E min_date \in TimeArgs, max_date \in TimeArgs, overwrite \in BOOLEAN :
            download_scores_over_time(opts.cve_ids, min_date, max_date, opts.output_dir,
                                      opts.output_format, overwrite)
    \/ /\ CanCall
       /\ \E date \in TimeArgs, overwrite \in BOOLEAN :
            download_scores_by_date(date, opts.cve_ids, opts.output_dir,
                                    opts.output_format, overwrite)
    \/ IterStart
    \/ Submit
    \/ Collect
    \/ Shutdown
    \/ DirectReturn
    \/ \E i \in DOMAIN futures : Start(i)
    \/ \E i \in DOMAIN futures : Finish(i)

Spec == Init /\ [][Next]_vars

SpecRerun == InitRerun /\ [][Next]_vars

SpecRetry == InitRetry /\ [][Next]_vars

\* ---------------------------------------------------- the helper functions
\* What a caller can pass as a TIME: None, a date, a datetime, a str or an
\* int timestamp.
AllTimeArgs ==
    {NoneV} \cup {DateV(d) : d \in Days}
            \cup {DatetimeV(d, t) : d \in Days, t \in TimesOfDay}
            \cup StrArgs
            \cup {IntV(n) : n \in 0..(SecondsPerDay * Span - 1)}

\* Nothing is running and no entry point will be called: the helper
\* functions are called on their own.
InitHelpers ==
    /\ opts = [output_dir |-> "", output_format |-> CSV_GZ, cve_ids |-> NoIds]
    /\ files = [p \in Paths(opts) |-> Absent]
    /\ pc = "idle"
    /\ call = NoCall
    /\ range = << >>
    /\ futures = << >>
    /\ examined = {}
    /\ error = ""
    /\ left = 0
    /\ probes = 0
    /\ gets = [d \in Days |-> 0]
    /\ writes = [p \in DOMAIN files |-> 0]
    /\ files0 = files
    /\ plain = TRUE
    /\ dirs = {}
    /\ failed0 = {}
    /\ fn = NoFn

Idle == UNCHANGED <<opts, files, pc, call, range, futures, examined, error, left, probes,
                    gets, writes, files0, plain, dirs, failed0>>

\* parse_date(date)
ParseDate(date) ==
    /\ fn' = [NoFn EXCEPT !.op = "parse_date", !.date = date, !.day = parse_date(date)]
    /\ Idle

\* get_output_path_by_date(date, output_dir, output_format); an omitted
\* output_format is the list OUTPUT_FORMATS.
OutputPath(date, output_dir, output_format) ==
    /\ fn' = [NoFn EXCEPT !.op = "get_output_path_by_date", !.date = date,
                          !.output_dir = output_dir, !.output_format = output_format,
                          !.path = get_output_path_by_date(date, output_dir, output_format)]
    /\ Idle

\* get_download_url(date): the day (or the datetime) the URL names
DownloadUrl(date) ==
    /\ \E latest \in (IF url_probes(date) THEN ProbeAnswers ELSE {ProbeError}) :
          fn' = [NoFn EXCEPT !.op = "get_download_url", !.date = date,
                            !.day = get_download_url(date, latest)]
    /\ Idle

\* get_output_format_from_path(path), on the path get_output_path_by_date
\* has just returned
FormatFromPath ==
    /\ fn.op = "get_output_path_by_date"
    /\ fn.path # NoPath
    /\ fn' = [fn EXCEPT !.op = "get_output_format_from_path",
                        !.format = get_output_format_from_path(fn.path)]
    /\ Idle

NextHelpers ==
    \/ \E date \in AllTimeArgs : ParseDate(date)
    \/ \E date \in AllTimeArgs, output_dir \in DirArgs, output_format \in FormatArgs :
          OutputPath(date, output_dir, output_format)
    \/ \E date \in AllTimeArgs : DownloadUrl(date)
    \/ FormatFromPath

SpecHelpers == InitHelpers /\ [][NextHelpers]_vars

\* ================================================================ claims
\* download_scores_over_time has been entered (the command did not stop at
\* its argument check)
Sync == call.entry \in {"command", "over_time"} /\ error # "usage"
Ended == pc \in {"returned", "raised"}
PathOf(i) == get_output_path_by_date(futures[i].date, call.output_dir, call.output_format)
DayPath(d) == get_output_path_by_date(DateV(d), call.output_dir, call.output_format)
Lo == range[1]
Hi == range[2]

\* A task leaves the queue (lines 45-51 run) without overwrite while a file
\* is at its path: it ends skipped, and the step changes neither the disk
\* nor any request counter.
SkipStep ==
    \A i \in DOMAIN futures :
        ( /\ futures[i].state = "pending"
          /\ i \in DOMAIN futures'
          /\ futures'[i].state # "pending"
          /\ ~call.overwrite
          /\ PathOf(i) \in DOMAIN files
          /\ os_path_exists(PathOf(i)) )
        => /\ futures'[i].state = "skipped"
           /\ files' = files
           /\ gets' = gets
           /\ probes' = probes
           /\ writes' = writes

\* C1: download_scores_by_date without overwrite, with a file already at
\* its path, returns successfully with no request made and the file
\* untouched; so while no call has asked for overwrite no path is opened for
\* writing more than once.
C1_SkipIsNoOp ==
    /\ [][SkipStep]_vars
    /\ [](plain => \A p \in DOMAIN writes : writes[p] <= 1)
    /\ []((call.entry = "by_date" /\ Ended /\ futures[1].state = "skipped")
             => (pc = "returned" /\ error = ""))

\* A second call without overwrite finds the file the first one wrote and
\* returns without a request.
C1_Witness ==
    /\ call.entry = "by_date"
    /\ ~call.overwrite
    /\ plain
    /\ pc = "returned"
    /\ futures[1].state = "skipped"
    /\ writes[futures[1].path] = 1
    /\ \A d \in Days : gets[d] = 0
    /\ probes = 0

\* C2: a download_scores_over_time call without overwrite that returns (no
\* task raised) has made one request for every date of the range whose file
\* was missing when it began, none for any other date, and leaves a file
\* at the path of every date of the range.
C2_FetchesOnlyMissing ==
    (Sync /\ pc = "returned" /\ ~call.overwrite)
    => \A d \in Days :
          /\ gets[d] = IF d \in Lo..Hi /\ files0[DayPath(d)] = Absent THEN 1 ELSE 0
          /\ d \in Lo..Hi => os_path_exists(DayPath(d))

\* A three-day range with one file already there: two requests, three files.
C2_Witness ==
    /\ Sync /\ pc = "returned" /\ ~call.overwrite
    /\ Hi = Lo + 2
    /\ Cardinality({d \in Lo..Hi : files0[DayPath(d)] # Absent}) = 1
    /\ Cardinality({d \in Days : gets[d] = 1}) = 2
    /\ \A d \in Lo..Hi : os_path_exists(DayPath(d))

\* C3: when download_scores_over_time hands control back, every submitted
\* task has ended; and if any task raised, it hands back an error.
C3_ErrorSurfacesAfterAllEnd ==
    (Sync /\ Ended)
    => /\ \A i \in DOMAIN futures : futures[i].state \in Terminal
       /\ (\E i \in DOMAIN futures : futures[i].state = "failed")
             => (pc = "raised" /\ error # "")

\* A call that raised after one task failed and another finished its write.
C3_Witness ==
    /\ Sync /\ pc = "raised"
    /\ \E i, j \in DOMAIN futures :
          /\ futures[i].state = "failed"
          /\ futures[j].state = "done"
          /\ j \notin examined

C5_Claimed ==
    Sync => \A i \in DOMAIN futures : futures[i].date.day >= MIN_DATE

\* C5, amended: a supplied min_date earlier than MIN_DATE is neither rejected
\* nor clamped: the range starts at the supplied date, which is the date of
\* the first task; MIN_DATE is the start only when min_date is omitted.
C5_MinDateTakenAsGiven ==
    (Sync /\ range # << >>)
    => /\ Lo = (IF Truthy(call.min_date) THEN parse_date(call.min_date) ELSE MIN_DATE)
       /\ \A i \in DOMAIN futures : futures[i].date = DateV(Lo + (i - 1))

\* A request was made for a date before MIN_DATE that the caller supplied.
C5_Witness ==
    /\ Sync /\ Truthy(call.min_date)
    /\ range # << >>
    /\ Lo < MIN_DATE
    /\ futures # << >>
    /\ futures[1].date.day < MIN_DATE
    /\ gets[futures[1].date.day] = 1

\* C6: in a download_scores_over_time call the get_max_date probe is made
\* by iter_dates_in_range alone: never when max_date is given, and once,
\* whatever the length of the range, when max_date is omitted and the
\* generator has got as far as resolving it (min_date parsed); no task adds
\* a probe.
C6_OneProbe ==
    Sync
    => /\ probes <= 1
       /\ Truthy(call.max_date) => probes = 0
       /\ ( /\ ~Truthy(call.max_date)
            /\ pc \notin {"iter"}
            /\ range_min(call.min_date) # ParseError )
          => probes = 1

\* All tasks of a range of several dates have ended and the one probe of
\* the call is the generator's.
C6_Witness ==
    /\ Sync /\ ~Truthy(call.max_date) /\ pc = "returned"
    /\ Len(futures) >= 2
    /\ \A i \in DOMAIN futures : futures[i].state = "done"
    /\ probes = 1

Supported == call.output_format \in Range(OUTPUT_FORMATS)

\* C7 as claimed: with a format that is none of the eight, every task ends
\* in an error, the disk as it was.
C7_Claimed ==
    ~Supported
    => \A i \in DOMAIN futures :
          futures[i].state \in Terminal => (futures[i].state = "failed" /\ files = files0)

\* C7, amended: with a format that is none of the eight no file is ever
\* created or changed, and the task ends in an error unless overwrite is
\* off and a file is already at its path: then it returns successfully at
\* the existence check, the format never looked at.
C7_UnsupportedNeverWrites ==
    ~Supported
    => /\ files = files0
       /\ \A p \in DOMAIN writes : writes[p] = 0
       /\ \A i \in DOMAIN futures :
             futures[i].state \in Terminal
             => \/ futures[i].state = "failed"
                \/ /\ futures[i].state = "skipped"
                   /\ ~call.overwrite
                   /\ files0[futures[i].path] # Absent

\* The table was fetched, overwrite was on and a file was there: ValueError,
\* and the file is still the one that was there.
C7_Witness ==
    /\ call.output_format = XML
    /\ call.overwrite
    /\ \E i \in DOMAIN futures :
          /\ futures[i].state = "failed"
          /\ futures[i].err = "format"
          /\ files[futures[i].path] = Foreign

\* C8 as claimed: one date, no cve_ids, output_format not given by the
\* caller (omitted, or None, which get_output_path_by_date reads as
\* DEFAULT_OUTPUT_FORMAT): once the table has been fetched and no writer has failed, the
\* file <output_dir>/<date>.csv.gz holds every row of the snapshot as
\* gzip-compressed CSV, and the path is named for that same format.
C8_Claimed ==
    ( /\ call.entry # ""
      /\ ~call.given \/ call.output_format = NoneFormat
      /\ call.cve_ids = NoIds
      /\ Len(futures) = 1
      /\ futures[1].state = "done" \/ (futures[1].state = "failed" /\ futures[1].err = "format") )
    => LET day == futures[1].date.day
           path == [dir |-> abspath(call.output_dir), iso |-> day, ext |-> CSV_GZ]
       IN  /\ futures[1].path = path
           /\ files[path] = [writer |-> "to_csv", gzip |-> TRUE,
                             rows |-> Snapshot(day), whole |-> TRUE]

\* C9 as claimed: when download_scores_over_time ends, the files on disk
\* are those there before the call and those of the tasks that completed
\* their write.
C9_Claimed ==
    (Sync /\ Ended)
    => {p \in DOMAIN files : files[p] # Absent}
         = {p \in DOMAIN files : files0[p] # Absent}
             \cup {futures[i].path : i \in {j \in DOMAIN futures : futures[j].state = "done"}}

Opened(i) == futures[i].state = "done" \/ (futures[i].state = "failed" /\ futures[i].err = "partial")

\* C9, amended: when download_scores_over_time ends, the files on disk are
\* those there before the call, those of the tasks that completed their
\* write, and those a failed write left incomplete; each path a task opened
\* holds what the task of its own date put there and every other path is as
\* it was, whatever the order the tasks ran and ended in.
C9_DiskIsUnionOfWrites ==
    (Sync /\ Ended)
    => /\ {p \in DOMAIN files : files[p] # Absent}
            = {p \in DOMAIN files : files0[p] # Absent}
                \cup {futures[i].path : i \in {j \in DOMAIN futures : Opened(j)}}
       /\ \A i \in DOMAIN futures :
             Opened(i) => files[PathOf(i)] =
                             written(call.output_format, futures[i].date.day, call.cve_ids,
                                     futures[i].state = "done")
       /\ \A p \in DOMAIN files :
             (\A i \in DOMAIN futures : Opened(i) => PathOf(i) # p) => files[p] = files0[p]

\* Three tasks: the last submitted wrote its file, the first left an
\* incomplete one, and the results were taken out of submission order.
C9_Witness ==
    /\ Sync /\ pc = "raised"
    /\ Len(futures) = 3
    /\ futures[3].state = "done"
    /\ futures[2].state = "done"
    /\ futures[1].err = "partial"
    /\ 3 \in examined
    /\ 2 \notin examined

\* The for loop is over: every date of the range has been submitted.
Dispatched == range # << >> /\ pc \notin {"iter", "submit"}

\* C10: the tasks of one download_scores_over_time call are one per date of
\* the range, and no two of them have the same path; so no two tasks ever
\* check or write the same file.
C10_TasksDisjoint ==
    Sync
    => /\ \A i, j \in DOMAIN futures : i # j => PathOf(i) # PathOf(j)
       /\ Dispatched
          => /\ Len(futures) = Cardinality(Lo..Hi)
             /\ \A d \in Lo..Hi :
                   Cardinality({i \in DOMAIN futures : futures[i].date = DateV(d)}) = 1

\* Two tasks are between their existence check and their write at once.
C10_Witness ==
    /\ Sync
    /\ \E i, j \in DOMAIN futures :
          /\ i # j
          /\ futures[i].state = "running"
          /\ futures[j].state = "running"
          /\ futures[i].path # futures[j].path

\* C11: when download_scores_over_time ends with an error, the file of every
\* task that completed is on disk with all it wrote (the rows of its own
\* date, filtered, in the format of the call), and every file that was there
\* before the call and that no task opened is as it was.
C11_CompletedFilesStay ==
    (Sync /\ pc = "raised")
    => /\ \A i \in DOMAIN futures :
             futures[i].state = "done"
             => files[PathOf(i)] =
                   [writer |-> writer(call.output_format),
                    gzip |-> compression(call.output_format),
                    rows |-> filter_rows(Snapshot(futures[i].date.day), call.cve_ids),
                    whole |-> TRUE]
       /\ \A p \in DOMAIN files :
             (files0[p] # Absent /\ \A i \in DOMAIN futures : Opened(i) => PathOf(i) # p)
             => files[p] = files0[p]

\* The call raised for one date; the file another date's task wrote is
\* there, and so is a file the call found and did not write.
C11_Witness ==
    /\ Sync /\ pc = "raised"
    /\ \E i, j \in DOMAIN futures :
          /\ futures[i].state = "done"
          /\ files0[futures[i].path] = Absent
          /\ files[futures[i].path].whole
          /\ futures[j].state = "failed"
    /\ \E p \in DOMAIN files : files0[p] = Foreign /\ files[p] = Foreign

\* The calendar day a TIME argument stands for.
DayOf(date) ==
    CASE date.kind = "datetime" -> date_of(date.day)
      [] date.kind = "int" -> date.day \div SecondsPerDay
      [] OTHER -> date.day

\* a date, a datetime, a timestamp or a %Y-%m-%d str
SupportedTime(date) ==
    date.kind \in {"date", "datetime", "int"} \/ (date.kind = "str" /\ date.day >= 0)

\* C12 as claimed: for a date, a datetime, a timestamp and a YYYY-MM-DD str
\* parse_date returns the calendar day of its argument as a plain date (of a
\* datetime, its date part), so the date text in the path of
\* get_output_path_by_date and in the URL of get_download_url is that of a
\* plain date.
C12_Claimed ==
    /\ (fn.op = "parse_date" /\ SupportedTime(fn.date))
       => (IsPureDate(fn.day) /\ fn.day = DayOf(fn.date))
    /\ (fn.op = "get_output_path_by_date" /\ SupportedTime(fn.date))
       => (IsPureDate(fn.path.iso) /\ fn.path.iso = DayOf(fn.date))
    /\ (fn.op = "get_download_url" /\ SupportedTime(fn.date) /\ Truthy(fn.date))
       => (IsPureDate(fn.day) /\ fn.day = DayOf(fn.date))

\* C13: when min_date is not later than max_date, the dates
\* iter_dates_in_range yields (one task each, in the order yielded) start at
\* min_date, each is a plain date one day after the one before, and once the
\* loop is over there are (max_date - min_date).days + 1 of them, the last
\* being max_date; a range of one day yields that day alone.
C13_DatesAscending ==
    (Sync /\ range # << >> /\ Lo <= Hi)
    => /\ \A i \in DOMAIN futures :
             /\ futures[i].date.kind = "date"
             /\ i = 1 => futures[i].date.day = Lo
             /\ i > 1 => futures[i].date.day = futures[i - 1].date.day + 1
       /\ Len(futures) <= (Hi - Lo) + 1
       /\ Dispatched
          => /\ Len(futures) = (Hi - Lo) + 1
             /\ futures[Len(futures)].date.day = Hi
             /\ Lo = Hi => [i \in DOMAIN futures |-> futures[i].date] = << DateV(Lo) >>

\* A range of three days has been walked: three dates, first to last.
C13_Witness ==
    /\ Sync /\ range # << >> /\ Hi = Lo + 2
    /\ Dispatched
    /\ [i \in DOMAIN futures |-> futures[i].date.day] = <<Lo, Lo + 1, Lo + 2>>

\* The places in a table of the rows a cve_ids argument keeps.
Kept(table, cve_ids) ==
    IF cve_ids = NoIds THEN DOMAIN table
    ELSE {k \in DOMAIN table : table[k].cve_id \in cve_ids}

\* C14: the file of a task that completed holds, in the order of the fetched
\* table and unaltered, the rows whose cve_id is in cve_ids and no other row,
\* each once; with cve_ids empty or omitted it holds every row of the table.
C14_PersistedRowsAreFiltered ==
    \A i \in DOMAIN futures :
        futures[i].state = "done"
        => LET table == Snapshot(futures[i].url)
               rows == files[futures[i].path].rows
               keep == Kept(table, call.cve_ids)
           IN  /\ Len(rows) = Cardinality(keep)
               /\ \A k \in DOMAIN rows :
                     \E j \in keep : /\ Cardinality({m \in keep : m <= j}) = k
                                     /\ rows[k] = table[j]

\* A filter that names the first and the third row of the table, and an
\* identifier that is not in it: the file holds those two rows, in that order.
C14_Witness ==
    /\ call.cve_ids = {"CVE-3", "CVE-1", "CVE-9"}
    /\ \E i \in DOMAIN futures :
          /\ futures[i].state = "done"
          /\ files[futures[i].path].rows =
                << [cve_id |-> "CVE-1", day |-> futures[i].url],
                   [cve_id |-> "CVE-3", day |-> futures[i].url] >>

\* C15: for each of the eight formats, every date and every directory,
\* get_output_format_from_path gives back the format
\* get_output_path_by_date was given (csv.gz for a .csv.gz path, never csv;
\* jsonl.gz for a .jsonl.gz path); the path made for no format at all is
\* that of DEFAULT_OUTPUT_FORMAT; and for a path that ends in the extension
\* of none of the eight it raises ValueError.
C15_FormatFromPathInverts ==
    fn.op = "get_output_format_from_path"
    => /\ fn.output_format \in Range(OUTPUT_FORMATS) => fn.format = fn.output_format
       /\ fn.output_format = NoneFormat => fn.format = DEFAULT_OUTPUT_FORMAT
       /\ fn.output_format \in {XML, ListFormat} => fn.format = FormatError

\* The format of a .csv.gz path in a named directory has been looked up.
C15_Witness ==
    /\ fn.op = "get_output_format_from_path"
    /\ fn.path.ext = CSV_GZ /\ fn.format = CSV_GZ /\ fn.output_dir = "/data"

\* The command was given a date and a min-date or a max-date as well.
DateAndRange ==
    /\ call.entry = "command"
    /\ Truthy(call.argv[1])
    /\ Truthy(call.argv[2]) \/ Truthy(call.argv[3])

\* C16: download_scores_command given a date together with a min-date or a
\* max-date raises, and nothing has been done when it does: no probe, no
\* request, no task, no directory made, no file opened or changed.
C16_UsageErrorBeforeWork ==
    DateAndRange
    => /\ pc = "raised"
       /\ error = "usage"
       /\ futures = << >>
       /\ range = << >>
       /\ probes = 0
       /\ \A d \in Days : gets[d] = 0
       /\ \A p \in DOMAIN writes : writes[p] = 0
       /\ files = files0
       /\ dirs = {dirname(p) : p \in {q \in DOMAIN files0 : files0[q] # Absent}}

\* The command was given all three of date, min-date and max-date, with
\* --overwrite, on a disk that holds a file: it raised, the file is there.
C16_Witness ==
    /\ DateAndRange
    /\ Truthy(call.argv[2]) /\ Truthy(call.argv[3])
    /\ call.overwrite
    /\ pc = "raised"
    /\ \E p \in DOMAIN files : files[p] = Foreign

\* The task went through download_scores_by_date to one of its ends: the
\* return at the existence check, the end of a writer, or an error raised
\* by the request, the writer chain or a writer.
RanToEnd(i) ==
    \/ futures[i].state \in {"skipped", "done"}
    \/ futures[i].state = "failed" /\ futures[i].err \in {"http", "format", "partial"}

\* C17: in download_scores_over_time no result is taken, and no task's error
\* is picked up, before a task has been submitted for every date of the
\* range; and when the call ends, with or without an error, the task of
\* every date of the range has run to an end of its own: none was cancelled
\* or left out because another had failed.
C17_AllDispatchedNoneCancelled ==
    (Sync /\ range # << >>)
    => /\ (examined # {} \/ error # "")
          => (Dispatched /\ Len(futures) = Cardinality(Lo..Hi))
       /\ Ended
          => /\ \A d \in Lo..Hi : \E i \in DOMAIN futures : futures[i].date = DateV(d)
             /\ \A i \in DOMAIN futures : RanToEnd(i)

\* The error of one task has been picked up and the call is leaving the with
\* block while the task of another date has not been started yet.
C17_Witness ==
    /\ Sync /\ pc = "shutdown" /\ error # ""
    /\ \E i, j \in DOMAIN futures :
          /\ futures[i].state = "failed"
          /\ futures[j].state = "pending"

\* C18: with overwrite on, a task is never ended by the existence check: a
\* file at its path, incomplete or not, does not keep it from making its
\* request; and when request and write succeed the file holds the whole
\* table of the date, whatever was at the path before.
C18_OverwriteReplaces ==
    call.overwrite
    => \A i \in DOMAIN futures :
          /\ futures[i].state # "skipped"
          /\ (futures[i].state = "done" \/ futures[i].err \in {"http", "format", "partial"})
             => gets[futures[i].url] >= 1
          /\ futures[i].state = "done"
             => /\ files[futures[i].path].whole
                /\ files[futures[i].path].rows =
                      filter_rows(Snapshot(futures[i].date.day), call.cve_ids)

\* A failed write of an earlier call had left an incomplete file; a call
\* with overwrite has fetched the date again and the file is now whole.
C18_Witness ==
    /\ call.entry = "by_date"
    /\ call.overwrite
    /\ futures[1].state = "done"
    /\ files0[futures[1].path] # Absent
    /\ ~files0[futures[1].path].whole
    /\ files[futures[1].path].whole
    /\ gets[futures[1].url] = 1

\* A download_scores_over_time call without overwrite has ended, and d is a
\* date of its range whose latest request, in an earlier call, had failed.
RetryOf(d) ==
    /\ Sync /\ ~call.overwrite /\ Ended
    /\ range # << >>
    /\ d \in Lo..Hi
    /\ d \in failed0

\* C19 as claimed: a failed request leaves the path of its date as it was,
\* and a later download_scores_over_time without overwrite over a range
\* with that date makes the request for it again.
C19_Claimed ==
    /\ \A i \in DOMAIN futures :
          futures[i].err = "http" => files[futures[i].path] = files0[futures[i].path]
    /\ \A d \in Days : RetryOf(d) => gets[d] >= 1

\* C19, amended: a failed request leaves the path of its date as it was: no
\* file where there was none, the same file where there was one (overwrite
\* on).  A later download_scores_over_time without overwrite over a range
\* with that date makes the request again when no file is at the path, and
\* makes none when one is.
C19_FailedFetchLeavesFile ==
    /\ \A i \in DOMAIN futures :
          futures[i].err = "http" => files[futures[i].path] = files0[futures[i].path]
    /\ \A d \in Days :
          RetryOf(d) => gets[d] = IF files0[DayPath(d)] = Absent THEN 1 ELSE 0

\* The request for a date failed in one call and no file was made; the next
\* call, without overwrite, has made the request again.
C19_Witness ==
    \E d \in Days :
        /\ RetryOf(d)
        /\ files0[DayPath(d)] = Absent
        /\ gets[d] = 1

\* A step of a call without overwrite (no new call begins: left is the
\* same) changes no file that is on the disk and makes no request for a date
\* whose file is on the disk.
KeepsFiles ==
    ~call.overwrite
    => /\ \A p \in DOMAIN files : files[p] # Absent => files'[p] = files[p]
       /\ \A d \in Days :
             (call.entry # "" /\ left' = left
                /\ DayPath(d) \in DOMAIN files /\ files[DayPath(d)] # Absent)
             => gets'[d] = gets[d]

\* C20: once a file is at the path of a date, whole or left incomplete by a
\* failed write, a download_scores_by_date or download_scores_over_time call
\* without overwrite makes no request for the date and does not change the
\* file: as long as no call has asked for overwrite, a file once on the
\* disk stays what it is, and an incomplete file is made whole only by a
\* call with overwrite.
C20_ExistingFileIsFinal ==
    /\ [][KeepsFiles]_vars
    /\ [](~call.overwrite
            => \A i \in DOMAIN futures :
                  (futures[i].path # NoPath /\ files0[futures[i].path] # Absent)
                  => /\ futures[i].state \in {"pending", "skipped"}
                     /\ files[futures[i].path] = files0[futures[i].path])
    /\ [](\A p \in DOMAIN files :
             (files0[p] # Absent /\ ~files0[p].whole /\ files[p].whole) => call.overwrite)

\* A failed write left an incomplete file; the next call, without
\* overwrite, has ended with the date skipped and the file still incomplete.
C20_Witness ==
    /\ Sync /\ ~call.overwrite /\ pc = "returned"
    /\ \E i \in DOMAIN futures :
          /\ futures[i].state = "skipped"
          /\ files[futures[i].path] # Absent
          /\ ~files[futures[i].path].whole
          /\ gets[futures[i].url] = 0

====
